---- MODULE Spec2Model ----
(***************************************************************************)
(* A model of src/app.js, the script of the card editor page.              *)
(*                                                                         *)
(* Strings are sequences of one-character strings.  The page's DOM is the  *)
(* state: for every .editable node its innerText, its style.display, its   *)
(* contenteditable attribute, its _editHandlers stash and the listeners    *)
(* attached to it; localStorage is a partial map from key to value; the    *)
(* hex field has its value and border colour, the document its --accent;   *)
(* every .placeholder has its background image; a handleFile call that     *)
(* awaits fileToImage is a pending decode.                                 *)
(* Each action is one event-loop turn: the browser's own change to the DOM *)
(* (the typed text) followed by every listener the script attached.        *)
(***************************************************************************)
EXTENDS Integers, Sequences, FiniteSets, TLC

\* --------------------------------------------------------------- bounds
\* Longest text a node holds (typed by the user or written in the HTML).
MaxTextLen == 2
\* Most blur listeners the model lets pile up on one node.
MaxListeners == 2
\* Longest string handed to normalizeHex on its own (SpecNormalize).
MaxHexLen == 7
\* Longest content typed into the hex field (SpecHex).
MaxTypedLen == 4
\* Most handleFile calls awaiting their decode at once.
MaxInFlight == 2
\* Most .placeholder elements of a document.
MaxPlaceholders == 2
\* Shortest sides of those images run from 1 to this.
MaxShortSide == 3
\* Longest side of the images handed to downscaleToDataURL on its own
\* (SpecDownscale), besides the extreme ones.
MaxSide == 4000

\* const MAX_DIMENSION = 1600; // longest side after resize
MAX_DIMENSION == 1600

\* ------------------------------------------------------- string helpers
\* All strings over alphabet A of length at most n.
StringsUpTo(A, n) == UNION {[1..k -> A] : k \in 0..n}

\* The characters String.prototype.trim strips, among those the model types.
Whitespace == {" "}

RECURSIVE trimStart(_)
trimStart(s) ==
  IF s # <<>> /\ Head(s) \in Whitespace THEN trimStart(Tail(s)) ELSE s

RECURSIVE trimEnd(_)
trimEnd(s) ==
  IF s # <<>> /\ s[Len(s)] \in Whitespace
    THEN trimEnd(SubSeq(s, 1, Len(s) - 1))
    ELSE s

\* String.prototype.trim
trim(s) == trimEnd(trimStart(s))

\* One character of String.prototype.toLowerCase, on the letters in use.
toLowerChar(c) ==
  CASE c = "L" -> "l" [] c = "E" -> "e" [] c = "G" -> "g"
    [] c = "A" -> "a" [] c = "N" -> "n" [] OTHER -> c

toLowerCase(s) == [i \in 1..Len(s) |-> toLowerChar(s[i])]

\* One character of String.prototype.toUpperCase, on the letters in use.
toUpperChar(c) ==
  CASE c = "a" -> "A" [] c = "b" -> "B" [] c = "c" -> "C" [] c = "d" -> "D"
    [] c = "e" -> "E" [] c = "f" -> "F" [] c = "g" -> "G" [] OTHER -> c

toUpperCase(s) == [i \in 1..Len(s) |-> toUpperChar(s[i])]

\* ------------------------------------------------------------ the page
\* The characters a user types into a text node.
TextAlphabet == {" ", "x"}
Texts == StringsUpTo(TextAlphabet, MaxTextLen)

LegalKey == <<"L", "e", "g", "a", "l">>
NameKey == <<"n", "a", "m", "e">>
CardGroup == <<"c">>

\* .editable[data-group][data-key] elements as the HTML declares them.
Tag(g, k, h) == [group |-> g, key |-> k, html |-> h]

\* The documents the script is loaded into: the nodes in document order.
\* Duplicates of one identity need not start with the same text.
Pages ==
  { << Tag(CardGroup, LegalKey, <<"x">>), Tag(CardGroup, LegalKey, <<"x", "x">>) >>,
    << Tag(CardGroup, NameKey, <<"x">>), Tag(CardGroup, NameKey, <<"x", "x">>) >>,
    << Tag(CardGroup, LegalKey, <<"x">>), Tag(CardGroup, NameKey, <<"x">>) >> }

VARIABLES
  page,            \* the document: Seq of [group, key, html]
  innerText,       \* node -> its current text
  displayNone,     \* node -> style.display = 'none'
  contenteditable, \* node -> the contenteditable attribute is set
  editHandlers,    \* node -> node._editHandlers is non-null
  inputListeners,  \* node -> number of attached 'input' listeners
  keyListeners,    \* node -> number of attached 'keydown' listeners
  blurListeners,   \* node -> number of attached once-'blur' listeners
  localStorage,    \* partial map: storage key -> stored string
  hexValue,        \* hexInput.value
  accent,          \* the --accent custom property of the document
  borderColor,     \* hexInput.style.borderColor
  hexArg,          \* the argument of one call of normalizeHex
  hexResult,       \* what that call returned
  storageFull,     \* localStorage.setItem throws (quota exceeded, denied)
  backgroundImage, \* placeholder -> the data URL of its background image
  hasImageClass,   \* placeholder -> its classList holds 'has-image'
  inFlight,        \* file -> handleFile calls awaiting fileToImage(file)
  alertShown,      \* the last turn of the image feature called alert()
  imgArg,          \* the argument of one call of downscaleToDataURL
  imgResult,       \* what that call returned
  lastApplied,     \* history: the file whose decode completed last
  mirrored,        \* history: identities a mirror completed at since load
  hexHistory,      \* history: the initial accent, the last valid hex input
  lastEvent        \* history: the event handled last, with its input

textVars == << page, innerText, displayNone, contenteditable, editHandlers,
               inputListeners, keyListeners, blurListeners, localStorage,
               mirrored >>
imgVars == << backgroundImage, hasImageClass, inFlight, alertShown, lastApplied >>
hexVars == << hexValue, accent, borderColor, hexHistory >>
fnVars == << hexArg, hexResult, imgArg, imgResult >>
vars == << textVars, hexVars, fnVars, imgVars, storageFull, lastEvent >>

\* editableNodes, in document order
editableNodes == DOMAIN page

dataGroup(n) == page[n].group
dataKey(n) == page[n].key

\* function mapKey(group, key) { return `${group}::${key}`; }
mapKey(group, key) == group \o <<":", ":">> \o key

\* `cardText:${group}:${key}`
textStorageKey(group, key) == <<"cardText:">> \o group \o <<":">> \o key

identity(n) == mapKey(dataGroup(n), dataKey(n))
storageKeyOf(n) == textStorageKey(dataGroup(n), dataKey(n))

\* bindMap.get(k): every node whose group and key give the identity k
bindMap(k) == {n \in editableNodes : identity(n) = k}

\* defaultText[k]: each node in document order overwrites the entry of its
\* identity, so the last node of the identity decides it
defaultText(k) ==
  LET last == CHOOSE n \in bindMap(k) : \A m \in bindMap(k) : m <= n
  IN  page[last].html

\* isLegal without toLowerCase: the key compared as written.
isLegalCaseSensitive(key) == key = <<"l", "e", "g", "a", "l">>

\* key.toLowerCase() === 'legal'
isLegal(key) == toLowerCase(key) = <<"l", "e", "g", "a", "l">>

\* ------------------------------------------------------- localStorage
setItem(store, k, v) ==
  [x \in DOMAIN store \cup {k} |-> IF x = k THEN v ELSE store[x]]

removeItem(store, K) == [x \in DOMAIN store \ K |-> store[x]]

hasItem(store, k) == k \in DOMAIN store

\* try { localStorage.setItem(k, v) } catch {}: a write the store refuses
\* throws, and the exception is dropped.
trySetItem(store, k, v) == IF storageFull THEN store ELSE setItem(store, k, v)

\* ----------------------------------------------------- the accent field
\* The characters typed into the hex field: a hex digit of each case, a
\* letter that is no hex digit, '#' and a space.
HexAlphabet == {"a", "B", "g", "#", " "}

\* The character class [0-9A-Fa-f]
HexChars ==
  {"0", "1", "2", "3", "4", "5", "6", "7", "8", "9",
   "a", "b", "c", "d", "e", "f", "A", "B", "C", "D", "E", "F"}

\* JavaScript's null, as a value no string of characters equals.
Null == <<"null">>

\* value.replace(/^#/, '')
stripLeadingHash(s) == IF s # <<>> /\ Head(s) = "#" THEN Tail(s) ELSE s

\* hex.split('').map(ch => ch + ch).join('')
RECURSIVE doubleEach(_)
doubleEach(s) ==
  IF s = <<>> THEN <<>> ELSE <<Head(s), Head(s)>> \o doubleEach(Tail(s))

\* /^[0-9A-Fa-f]{6}$/.test(hex)
isSixHex(s) == Len(s) = 6 /\ \A i \in 1..Len(s) : s[i] \in HexChars

\* normalizeHex without value.trim().
normalizeHexNoTrim(value) ==
  IF value = <<>> THEN Null
  ELSE
    LET stripped == stripLeadingHash(value)
        hex == IF Len(stripped) = 3 THEN doubleEach(stripped) ELSE stripped
    IN  IF isSixHex(hex) THEN <<"#">> \o toUpperCase(hex) ELSE Null

\* function normalizeHex(value)
normalizeHex(value) ==
  IF value = <<>> THEN Null
  ELSE
    LET stripped == stripLeadingHash(trim(value))
        hex == IF Len(stripped) = 3 THEN doubleEach(stripped) ELSE stripped
    IN  IF isSixHex(hex) THEN <<"#">> \o toUpperCase(hex) ELSE Null

\* The listener applying whatever normalizeHex returned, null included.
hexInputHandlerApplyNull(raw, acc) ==
  LET normalized == normalizeHex(raw)
  IN  IF normalized # Null
        THEN [accent |-> normalized, border |-> "#ccc"]
        ELSE [accent |-> <<>>, border |-> "red"]

\* The 'input' listener of hexInput: the accent and the border colour it
\* leaves, given the field's content and the accent before the event.
hexInputHandler(raw, acc) ==
  LET normalized == normalizeHex(raw)
  IN  IF normalized # Null
        THEN [accent |-> normalized, border |-> "#ccc"]
        ELSE [accent |-> acc, border |-> "red"]

\* initHexField: the field starts with the current accent without its '#'.
initHexValue(acc) == IF trim(acc) # <<>> THEN stripLeadingHash(trim(acc)) ELSE <<>>

\* --------------------------------------------------------- the handlers
\* The part of the state a handler of the text feature reads and writes.
Dom ==
  [ text |-> innerText, hidden |-> displayNone, editable |-> contenteditable,
    handlers |-> editHandlers, inputL |-> inputListeners,
    keyL |-> keyListeners, store |-> localStorage, done |-> mirrored ]

\* mirrorValue saving to localStorage only when it finalizes.
mirrorValueSaveOnFinalize(d, src, finalize) ==
  LET k == identity(src)
      raw == d.text[src]
      value == IF finalize THEN trim(raw) ELSE raw
      saved == IF finalize THEN trySetItem(d.store, storageKeyOf(src), value) ELSE d.store
      nodes == bindMap(k)
  IN  IF isLegal(dataKey(src)) /\ value = <<>>
        THEN [d EXCEPT
               !.store = saved,
               !.hidden = [n \in editableNodes |->
                            IF n \in nodes THEN TRUE ELSE d.hidden[n]],
               !.text = [n \in editableNodes |->
                          IF n \in nodes THEN <<>> ELSE d.text[n]],
               !.done = d.done \cup {k}]
        ELSE [d EXCEPT
               !.store = saved,
               !.hidden = [n \in editableNodes |->
                            IF n \in nodes THEN FALSE ELSE d.hidden[n]],
               !.text = [n \in editableNodes |->
                          IF n \in nodes /\ n # src THEN value ELSE d.text[n]],
               !.done = d.done \cup {k}]

\* mirrorValue trimming the text whether or not it finalizes.
mirrorValueAlwaysTrim(d, src, finalize) ==
  LET k == identity(src)
      value == trim(d.text[src])
      saved == trySetItem(d.store, storageKeyOf(src), value)
      nodes == bindMap(k)
  IN  IF isLegal(dataKey(src)) /\ value = <<>>
        THEN [d EXCEPT
               !.store = saved,
               !.hidden = [n \in editableNodes |->
                            IF n \in nodes THEN TRUE ELSE d.hidden[n]],
               !.text = [n \in editableNodes |->
                          IF n \in nodes THEN <<>> ELSE d.text[n]],
               !.done = d.done \cup {k}]
        ELSE [d EXCEPT
               !.store = saved,
               !.hidden = [n \in editableNodes |->
                            IF n \in nodes THEN FALSE ELSE d.hidden[n]],
               !.text = [n \in editableNodes |->
                          IF n \in nodes /\ n # src THEN value ELSE d.text[n]],
               !.done = d.done \cup {k}]

\* mirrorValue without its try/catch: a refused write ends the call.
mirrorValueUncaught(d, src, finalize) ==
  LET k == identity(src)
      raw == d.text[src]
      value == IF finalize THEN trim(raw) ELSE raw
      saved == setItem(d.store, storageKeyOf(src), value)
      nodes == bindMap(k)
  IN  IF storageFull THEN d
      ELSE IF isLegal(dataKey(src)) /\ value = <<>>
        THEN [d EXCEPT
               !.store = saved,
               !.hidden = [n \in editableNodes |->
                            IF n \in nodes THEN TRUE ELSE d.hidden[n]],
               !.text = [n \in editableNodes |->
                          IF n \in nodes THEN <<>> ELSE d.text[n]],
               !.done = d.done \cup {k}]
        ELSE [d EXCEPT
               !.store = saved,
               !.hidden = [n \in editableNodes |->
                            IF n \in nodes THEN FALSE ELSE d.hidden[n]],
               !.text = [n \in editableNodes |->
                          IF n \in nodes /\ n # src THEN value ELSE d.text[n]],
               !.done = d.done \cup {k}]

\* mirrorValue(sourceNode, opts)
mirrorValue(d, src, finalize) ==
  LET k == identity(src)
      raw == d.text[src]
      value == IF finalize THEN trim(raw) ELSE raw
      saved == trySetItem(d.store, storageKeyOf(src), value)
      nodes == bindMap(k)
  IN  IF isLegal(dataKey(src)) /\ value = <<>>
        THEN [d EXCEPT
               !.store = saved,
               !.hidden = [n \in editableNodes |->
                            IF n \in nodes THEN TRUE ELSE d.hidden[n]],
               !.text = [n \in editableNodes |->
                          IF n \in nodes THEN <<>> ELSE d.text[n]],
               !.done = d.done \cup {k}]
        ELSE [d EXCEPT
               !.store = saved,
               !.hidden = [n \in editableNodes |->
                            IF n \in nodes THEN FALSE ELSE d.hidden[n]],
               !.text = [n \in editableNodes |->
                          IF n \in nodes /\ n # src THEN value ELSE d.text[n]],
               !.done = d.done \cup {k}]

\* endEdit(node)
endEdit(d, n) ==
  IF ~d.editable[n] THEN d
  ELSE
    LET cleared ==
          IF d.handlers[n]
            THEN [d EXCEPT !.editable[n] = FALSE,
                            !.inputL[n] = d.inputL[n] - 1,
                            !.keyL[n] = d.keyL[n] - 1,
                            !.handlers[n] = FALSE]
            ELSE [d EXCEPT !.editable[n] = FALSE]
    IN  mirrorValue(cleared, n, TRUE)

\* The same listener body run once per attached listener.
RECURSIVE liveMirrorTimes(_, _, _)
liveMirrorTimes(d, n, times) ==
  IF times = 0 THEN d ELSE liveMirrorTimes(mirrorValue(d, n, FALSE), n, times - 1)

RECURSIVE endEditTimes(_, _, _)
endEditTimes(d, n, times) ==
  IF times = 0 THEN d ELSE endEditTimes(endEdit(d, n), n, times - 1)

\* What restoreTextFromStorage does to one node.
restoredText(store, n, text) ==
  IF hasItem(store, storageKeyOf(n)) THEN store[storageKeyOf(n)] ELSE text

\* The restore hiding a legal node only when the stored value is ''.
restoredHiddenNoTrim(store, n, hidden) ==
  IF hasItem(store, storageKeyOf(n))
    THEN isLegal(dataKey(n)) /\ store[storageKeyOf(n)] = <<>>
    ELSE hidden

restoredHidden(store, n, hidden) ==
  IF hasItem(store, storageKeyOf(n))
    THEN isLegal(dataKey(n)) /\ trim(store[storageKeyOf(n)]) = <<>>
    ELSE hidden

\* The state a handler leaves, written back to the variables.
Commit(d) ==
  /\ innerText' = d.text
  /\ displayNone' = d.hidden
  /\ contenteditable' = d.editable
  /\ editHandlers' = d.handlers
  /\ inputListeners' = d.inputL
  /\ keyListeners' = d.keyL
  /\ localStorage' = d.store
  /\ mirrored' = d.done

\* op: the event; node: its target (0: none); arg: the target's text when
\* its handlers start (the typed text, for an input event).
Event(op, n, arg) == [op |-> op, node |-> n, arg |-> arg]

\* --------------------------------------------------------- image input
\* A data URL, by what it encodes: the bytes of the file called name, or
\* (canvas) the JPEG the canvas made of them at width x height.
DataURL(name, canvas, width, height) ==
  [scheme |-> "data", name |-> name, canvas |-> canvas,
   width |-> width, height |-> height]

\* No URL: the '' of a style never set and of a call not yet made.
NoURL == [scheme |-> "", name |-> "", canvas |-> FALSE, width |-> 0, height |-> 0]

\* A File: its MIME type as <<type, subtype>> (<<>> is ''), the size of the
\* picture its bytes hold, and whether FileReader and Image can decode them.
File(name, type, width, height, decodes) ==
  [present |-> TRUE, name |-> name, type |-> type, width |-> width,
   height |-> height, decodes |-> decodes]

\* files[0] of an empty list, getAsFile() returning null.
NoFile ==
  [present |-> FALSE, name |-> "", type |-> <<>>, width |-> 0, height |-> 0,
   decodes |-> FALSE]

ImageFiles ==
  { File("small.png", <<"image", "png">>, 800, 600, TRUE),
    File("large.jpg", <<"image", "jpeg">>, 4000, 2000, TRUE),
    File("broken.png", <<"image", "png">>, 0, 0, FALSE) }

OtherFiles ==
  { File("notes.txt", <<"text", "plain">>, 0, 0, FALSE),
    File("untyped", <<>>, 0, 0, FALSE),
    NoFile }

\* file.type.startsWith('image/')
startsWithImage(type) == Len(type) >= 1 /\ type[1] = "image"

\* handleFile going on with any file that is there.
acceptsAnyFile(file) == file.present

\* The negation of handleFile's early return.
acceptsFile(file) == file.present /\ file.type # <<>> /\ startsWithImage(file.type)

\* The image fileToImage resolves with: img.src = reader.result.
fileToImage(file) ==
  [src |-> DataURL(file.name, FALSE, file.width, file.height),
   naturalWidth |-> file.width, naturalHeight |-> file.height]

Max(a, b) == IF a >= b THEN a ELSE b

\* Math.round(a / b) for a >= 0, b > 0: halves go up.
roundDiv(a, b) == (2 * a + b) \div (2 * b)

\* scale === 1: Math.min(1, MAX_DIMENSION / longest) is 1 when the quotient
\* is at least 1 (Infinity for longest = 0).
scaleIsOne(img) == Max(img.naturalWidth, img.naturalHeight) <= MAX_DIMENSION

\* The target size cut off instead of rounded.
targetSideFloor(side, img) ==
  IF scaleIsOne(img) THEN side
  ELSE (side * MAX_DIMENSION) \div Max(img.naturalWidth, img.naturalHeight)

\* Math.round(side * scale); side * MAX_DIMENSION / longest taken exactly.
targetSide(side, img) ==
  IF scaleIsOne(img) THEN side
  ELSE roundDiv(side * MAX_DIMENSION, Max(img.naturalWidth, img.naturalHeight))

\* The path of downscaleToDataURL that draws on a canvas.
needsCanvas(img) == ~(scaleIsOne(img) /\ img.src.scheme = "data")

\* downscaleToDataURL(img)
downscaleToDataURL(img) ==
  IF ~needsCanvas(img) THEN img.src
  ELSE DataURL(img.src.name, TRUE, targetSide(img.naturalWidth, img),
               targetSide(img.naturalHeight, img))

\* localStorage key of the image.
ImageKey == <<"cardImage">>

placeholders == DOMAIN backgroundImage

\* What applyToAllPlaceholders leaves: styles, classes, store.
Painted == [bg |-> backgroundImage, cls |-> hasImageClass, store |-> localStorage]

\* applyToAllPlaceholders painting and not saving.
applyWithoutSave(dataURL) ==
  [bg |-> [ph \in placeholders |-> dataURL],
   cls |-> [ph \in placeholders |-> TRUE],
   store |-> localStorage]

\* applyToAllPlaceholders(dataURL)
applyToAllPlaceholders(dataURL) ==
  [bg |-> [ph \in placeholders |-> dataURL],
   cls |-> [ph \in placeholders |-> TRUE],
   store |-> trySetItem(localStorage, ImageKey, dataURL)]

\* restoreImageFromStorage() on the fresh DOM of a load.
restoreImageFromStorage ==
  LET fresh == [bg |-> [ph \in placeholders |-> NoURL],
                cls |-> [ph \in placeholders |-> FALSE],
                store |-> localStorage]
  IN  IF hasItem(localStorage, ImageKey) /\ localStorage[ImageKey] # NoURL
        THEN applyToAllPlaceholders(localStorage[ImageKey])
        ELSE fresh

\* A handleFile call awaiting fileToImage; overtaken (history): a call
\* started after this one has completed before it.
Pending(file) == [file |-> file, overtaken |-> FALSE]

\* inFlight once the call at position i has completed.
completed(i) ==
  [j \in 1..(Len(inFlight) - 1) |->
     IF j < i THEN [inFlight[j] EXCEPT !.overtaken = TRUE] ELSE inFlight[j + 1]]

\* ------------------------------------------------------------- actions
\* beginEdit without its early return for a node that is being edited.
BeginEditNoGuard(n) ==
  /\ blurListeners[n] < MaxListeners
  /\ contenteditable' = [contenteditable EXCEPT ![n] = TRUE]
  /\ inputListeners' = [inputListeners EXCEPT ![n] = @ + 1]
  /\ keyListeners' = [keyListeners EXCEPT ![n] = @ + 1]
  /\ blurListeners' = [blurListeners EXCEPT ![n] = @ + 1]
  /\ editHandlers' = [editHandlers EXCEPT ![n] = TRUE]
  /\ lastEvent' = Event("beginEdit", n, innerText[n])
  /\ UNCHANGED << page, innerText, displayNone, localStorage, mirrored, hexVars,
                  fnVars, imgVars, storageFull >>

\* A click or a focus on a node: beginEdit(node).
BeginEdit(n) ==
  /\ IF contenteditable[n]
       THEN UNCHANGED textVars
       ELSE /\ blurListeners[n] < MaxListeners
            /\ contenteditable' = [contenteditable EXCEPT ![n] = TRUE]
            /\ inputListeners' = [inputListeners EXCEPT ![n] = @ + 1]
            /\ keyListeners' = [keyListeners EXCEPT ![n] = @ + 1]
            /\ blurListeners' = [blurListeners EXCEPT ![n] = @ + 1]
            /\ editHandlers' = [editHandlers EXCEPT ![n] = TRUE]
            /\ UNCHANGED << page, innerText, displayNone, localStorage, mirrored >>
  /\ lastEvent' = Event("beginEdit", n, innerText[n])
  /\ UNCHANGED << hexVars, fnVars, imgVars, storageFull >>

\* The user changes the content of an editable node to t: the 'input' event.
Input(n, t) ==
  /\ contenteditable[n]
  /\ Commit(liveMirrorTimes([Dom EXCEPT !.text[n] = t], n, inputListeners[n]))
  /\ lastEvent' = Event("input", n, t)
  /\ UNCHANGED << page, blurListeners, hexVars, fnVars, imgVars, storageFull >>

\* Enter without shift on a node with the session's keydown listener.
KeyEnter(n) ==
  /\ keyListeners[n] > 0
  /\ Commit(endEditTimes(Dom, n, keyListeners[n]))
  /\ lastEvent' = Event("enter", n, innerText[n])
  /\ UNCHANGED << page, blurListeners, hexVars, fnVars, imgVars, storageFull >>

\* The node loses focus: every once-'blur' listener runs and is removed.
Blur(n) ==
  /\ blurListeners[n] > 0
  /\ Commit(endEditTimes(Dom, n, blurListeners[n]))
  /\ blurListeners' = [blurListeners EXCEPT ![n] = 0]
  /\ lastEvent' = Event(IF contenteditable[n] THEN "blur" ELSE "lateBlur", n, innerText[n])
  /\ UNCHANGED << page, hexVars, fnVars, imgVars, storageFull >>

\* The reset without node.style.display = ''.
ResetTextKeepHidden ==
  /\ localStorage' = removeItem(localStorage, {storageKeyOf(n) : n \in editableNodes})
  /\ innerText' = [n \in editableNodes |-> defaultText(identity(n))]
  /\ lastEvent' = Event("reset", 0, <<>>)
  /\ UNCHANGED << page, displayNone, contenteditable, editHandlers, inputListeners,
                  keyListeners, blurListeners, mirrored, hexVars, fnVars, imgVars,
                  storageFull >>

\* A click on #resetTextBtn.
ResetText ==
  /\ localStorage' = removeItem(localStorage, {storageKeyOf(n) : n \in editableNodes})
  /\ innerText' = [n \in editableNodes |-> defaultText(identity(n))]
  /\ displayNone' = [n \in editableNodes |-> FALSE]
  /\ lastEvent' = Event("reset", 0, <<>>)
  /\ UNCHANGED << page, contenteditable, editHandlers, inputListeners,
                  keyListeners, blurListeners, mirrored, hexVars, fnVars, imgVars,
                  storageFull >>

\* The page is loaded again: a fresh DOM from the HTML, then the script's
\* top level: restoreImageFromStorage(), and restoreTextFromStorage() for
\* the text feature. The calls that were awaiting a decode are gone.
Reload ==
  /\ innerText' = [n \in editableNodes |-> restoredText(localStorage, n, page[n].html)]
  /\ displayNone' = [n \in editableNodes |-> restoredHidden(localStorage, n, FALSE)]
  /\ contenteditable' = [n \in editableNodes |-> FALSE]
  /\ editHandlers' = [n \in editableNodes |-> FALSE]
  /\ inputListeners' = [n \in editableNodes |-> 0]
  /\ keyListeners' = [n \in editableNodes |-> 0]
  /\ blurListeners' = [n \in editableNodes |-> 0]
  /\ mirrored' = {}
  /\ backgroundImage' = restoreImageFromStorage.bg
  /\ hasImageClass' = restoreImageFromStorage.cls
  /\ localStorage' = restoreImageFromStorage.store
  /\ inFlight' = <<>>
  /\ alertShown' = FALSE
  /\ lastEvent' = Event("load", 0, <<>>)
  /\ UNCHANGED << page, hexVars, fnVars, lastApplied, storageFull >>

\* The 'input' event of the hex field once its content has become raw.
HexInput(raw) ==
  /\ hexValue' = raw
  /\ accent' = hexInputHandler(raw, accent).accent
  /\ borderColor' = hexInputHandler(raw, accent).border
  /\ hexHistory' = IF normalizeHex(raw) # Null
                     THEN [hexHistory EXCEPT !.lastValid = raw]
                     ELSE hexHistory
  /\ lastEvent' = Event("hexInput", 0, raw)
  /\ UNCHANGED << textVars, fnVars, imgVars, storageFull >>

\* The user types one more character into the hex field.
HexType(c) ==
  /\ Len(hexValue) < MaxTypedLen
  /\ HexInput(Append(hexValue, c))

\* The user deletes the last character of the hex field.
HexBackspace ==
  /\ hexValue # <<>>
  /\ HexInput(SubSeq(hexValue, 1, Len(hexValue) - 1))

\* One call normalizeHex(hexArg).
CallNormalizeHex ==
  /\ lastEvent.op = "load"
  /\ hexResult' = normalizeHex(hexArg)
  /\ lastEvent' = Event("normalizeHex", 0, <<>>)
  /\ UNCHANGED << textVars, hexVars, hexArg, imgArg, imgResult, imgVars, storageFull >>

\* handleFile(file) up to its await: a file dropped, chosen or pasted.
HandleFile(file) ==
  /\ IF acceptsFile(file)
       THEN /\ Len(inFlight) < MaxInFlight
            /\ inFlight' = Append(inFlight, Pending(file))
            /\ lastEvent' = Event("ingest", 0, file)
       ELSE /\ inFlight' = inFlight
            /\ lastEvent' = Event("ignored", 0, file)
  /\ alertShown' = FALSE
  /\ UNCHANGED << textVars, hexVars, fnVars, backgroundImage, hasImageClass,
                  lastApplied, storageFull >>

\* A completed decode dropped when a later ingestion has already applied.
DecodeDoneUnlessOvertaken(i) ==
  LET file == inFlight[i].file
      after == IF inFlight[i].overtaken THEN Painted
               ELSE applyToAllPlaceholders(downscaleToDataURL(fileToImage(file)))
  IN  /\ file.decodes
      /\ backgroundImage' = after.bg
      /\ hasImageClass' = after.cls
      /\ localStorage' = after.store
      /\ inFlight' = completed(i)
      /\ alertShown' = FALSE
      /\ lastApplied' = inFlight[i]
      /\ lastEvent' = Event("decoded", 0, file)
      /\ UNCHANGED << page, innerText, displayNone, contenteditable, editHandlers,
                      inputListeners, keyListeners, blurListeners, mirrored,
                      hexVars, fnVars, storageFull >>

\* fileToImage resolves for the call at position i: the rest of the try
\* block, downscaleToDataURL and applyToAllPlaceholders.
DecodeDone(i) ==
  LET file == inFlight[i].file
      after == applyToAllPlaceholders(downscaleToDataURL(fileToImage(file)))
  IN  /\ file.decodes
      /\ backgroundImage' = after.bg
      /\ hasImageClass' = after.cls
      /\ localStorage' = after.store
      /\ inFlight' = completed(i)
      /\ alertShown' = FALSE
      /\ lastApplied' = inFlight[i]
      /\ lastEvent' = Event("decoded", 0, file)
      /\ UNCHANGED << page, innerText, displayNone, contenteditable, editHandlers,
                      inputListeners, keyListeners, blurListeners, mirrored,
                      hexVars, fnVars, storageFull >>

\* The call at position i ends in its catch block: console.error, alert.
Caught(i, op) ==
  /\ inFlight' = completed(i)
  /\ alertShown' = TRUE
  /\ lastEvent' = Event(op, 0, inFlight[i].file)
  /\ UNCHANGED << textVars, hexVars, fnVars, backgroundImage, hasImageClass,
                  lastApplied, storageFull >>

\* fileToImage rejects: reader.onerror or img.onerror.
DecodeError(i) ==
  /\ ~inFlight[i].file.decodes
  /\ Caught(i, "decodeError")

\* The image decodes and the canvas fails it (no 2d context, no memory).
ProcessError(i) ==
  /\ inFlight[i].file.decodes
  /\ needsCanvas(fileToImage(inFlight[i].file))
  /\ Caught(i, "processError")

\* The store begins or ceases to refuse writes: the quota is reached, or
\* another page of the origin frees space.
ToggleQuota ==
  /\ storageFull' = ~storageFull
  /\ lastEvent' = Event("quota", 0, <<>>)
  /\ UNCHANGED << textVars, hexVars, fnVars, imgVars >>

\* One call downscaleToDataURL(imgArg).
CallDownscale ==
  /\ lastEvent.op = "load"
  /\ imgResult' = downscaleToDataURL(imgArg)
  /\ lastEvent' = Event("downscale", 0, <<>>)
  /\ UNCHANGED << textVars, hexVars, hexArg, hexResult, imgArg, imgVars, storageFull >>

\* ------------------------------------------------------ specification
\* The DOM of document p right after its first load with an empty store.
InitText(p) ==
  /\ page = p
  /\ innerText = [n \in DOMAIN p |-> p[n].html]
  /\ displayNone = [n \in DOMAIN p |-> FALSE]
  /\ contenteditable = [n \in DOMAIN p |-> FALSE]
  /\ editHandlers = [n \in DOMAIN p |-> FALSE]
  /\ inputListeners = [n \in DOMAIN p |-> 0]
  /\ keyListeners = [n \in DOMAIN p |-> 0]
  /\ blurListeners = [n \in DOMAIN p |-> 0]
  /\ localStorage = << >>
  /\ mirrored = {}
  /\ lastEvent = Event("load", 0, <<>>)

\* The accent the stylesheet gives: none, or a colour.
InitialAccents == { <<>>, <<"#", "a", "B", "a">> }

\* The hex field after initHexField, for the stylesheet's accent a.
InitHexField(a) ==
  /\ accent = a
  /\ hexValue = initHexValue(a)
  /\ borderColor = ""
  /\ hexHistory = [initial |-> a, lastValid |-> Null]

InitFn(arg) ==
  /\ hexArg = arg
  /\ hexResult = <<>>

\* The image feature after the first load of a document with k
\* placeholders and nothing stored.
InitImage(k) ==
  /\ backgroundImage = [ph \in 1..k |-> NoURL]
  /\ hasImageClass = [ph \in 1..k |-> FALSE]
  /\ inFlight = <<>>
  /\ alertShown = FALSE
  /\ lastApplied = Pending(NoFile)

InitDownscale(img) ==
  /\ imgArg = img
  /\ imgResult = NoURL

\* A document without placeholders, a store that takes every write.
NoImages ==
  /\ InitImage(0)
  /\ InitDownscale(fileToImage(NoFile))
  /\ storageFull = FALSE

\* A document without editable nodes.
EmptyPage == << >>

\* The text feature: every document of Pages, edited, reset and reloaded.
Init ==
  /\ \E p \in Pages : InitText(p)
  /\ InitHexField(<<>>)
  /\ InitFn(<<>>)
  /\ NoImages

Next ==
  \/ \E n \in editableNodes : BeginEdit(n)
  \/ \E n \in editableNodes : \E t \in Texts : Input(n, t)
  \/ \E n \in editableNodes : KeyEnter(n)
  \/ \E n \in editableNodes : Blur(n)
  \/ ResetText
  \/ Reload

Spec == Init /\ [][Next]_vars

\* The accent field: the user types into and deletes from the hex field.
InitHex ==
  /\ InitText(EmptyPage)
  /\ \E a \in InitialAccents : InitHexField(a)
  /\ InitFn(<<>>)
  /\ NoImages

NextHex ==
  \/ \E c \in HexAlphabet : HexType(c)
  \/ HexBackspace

SpecHex == InitHex /\ [][NextHex]_vars

\* normalizeHex alone, on every string over HexAlphabet up to MaxHexLen.
InitNormalize ==
  /\ InitText(EmptyPage)
  /\ InitHexField(<<>>)
  /\ \E k \in 0..MaxHexLen : \E arg \in [1..k -> HexAlphabet] : InitFn(arg)
  /\ NoImages

NextNormalize == CallNormalizeHex

SpecNormalize == InitNormalize /\ [][NextNormalize]_vars

\* The image feature: files are dropped, chosen and pasted while earlier
\* ones still decode; decodes complete in any order; the page is reloaded.
InitImages ==
  /\ InitText(EmptyPage)
  /\ InitHexField(<<>>)
  /\ InitFn(<<>>)
  /\ \E k \in 0..MaxPlaceholders : InitImage(k)
  /\ InitDownscale(fileToImage(NoFile))
  /\ storageFull = FALSE

NextImages ==
  \/ \E file \in ImageFiles \cup OtherFiles : HandleFile(file)
  \/ \E i \in 1..Len(inFlight) : DecodeDone(i)
  \/ \E i \in 1..Len(inFlight) : DecodeError(i)
  \/ \E i \in 1..Len(inFlight) : ProcessError(i)
  \/ Reload

SpecImages == InitImages /\ [][NextImages]_vars

\* Both features with a store that may refuse writes, on a document that
\* has one editable node or some placeholders; files are handed to the
\* documents that have placeholders.
QuotaPages == { << Tag(CardGroup, LegalKey, <<"x">>) >> }

InitQuota ==
  /\ InitHexField(<<>>)
  /\ InitFn(<<>>)
  /\ InitDownscale(fileToImage(NoFile))
  /\ storageFull = FALSE
  /\ \/ (\E p \in QuotaPages : InitText(p)) /\ InitImage(0)
     \/ InitText(EmptyPage) /\ (\E k \in 1..MaxPlaceholders : InitImage(k))

NextQuota ==
  \/ ToggleQuota
  \/ \E n \in editableNodes : BeginEdit(n)
  \/ \E n \in editableNodes : \E t \in Texts : Input(n, t)
  \/ \E n \in editableNodes : KeyEnter(n)
  \/ \E n \in editableNodes : Blur(n)
  \/ ResetText
  \/ Reload
  \/ \E file \in ImageFiles \cup OtherFiles : placeholders # {} /\ HandleFile(file)
  \/ \E i \in 1..Len(inFlight) : DecodeDone(i)
  \/ \E i \in 1..Len(inFlight) : DecodeError(i)
  \/ \E i \in 1..Len(inFlight) : ProcessError(i)

SpecQuota == InitQuota /\ [][NextQuota]_vars

\* The text feature on documents whose data-group and data-key contain
\* ':': two pairs that give one map key, two that give different map keys
\* and one storage key.
ColonPages ==
  { << Tag(<<"a", ":">>, <<"b">>, <<"x">>), Tag(<<"a">>, <<":", "b">>, <<"x", "x">>) >>,
    << Tag(<<"a", ":", "b">>, <<"c">>, <<"x">>), Tag(<<"a">>, <<"b", ":", "c">>, <<"x", "x">>) >> }

InitColon ==
  /\ \E p \in ColonPages : InitText(p)
  /\ InitHexField(<<>>)
  /\ InitFn(<<>>)
  /\ NoImages

SpecColon == InitColon /\ [][Next]_vars

\* downscaleToDataURL on its own: one call for each decoded image.
DecodedImage(w, h) ==
  [src |-> DataURL("img", FALSE, w, h), naturalWidth |-> w, naturalHeight |-> h]

\* The short sides tried with the longest side long: the smallest ones,
\* a square, one off a square, and half.
ShortSidesOf(long) ==
  { short \in (1..MaxShortSide) \cup {long, long - 1, long \div 2} :
      1 <= short /\ short <= long }

ExtremeImages == { DecodedImage(10000, 1), DecodedImage(1, 10000) }

InitDownscales ==
  /\ InitText(EmptyPage)
  /\ InitHexField(<<>>)
  /\ InitFn(<<>>)
  /\ InitImage(0)
  /\ storageFull = FALSE
  /\ \E long \in 1..MaxSide : \E short \in ShortSidesOf(long) :
       \E img \in {DecodedImage(long, short), DecodedImage(short, long)}
                     \cup ExtremeImages :
         InitDownscale(img)

NextDownscale == CallDownscale

SpecDownscale == InitDownscales /\ [][NextDownscale]_vars

\* ============================================================== claims
\* The last event ended an Editing session of node n: a blur, or Enter
\* without shift, on a node that was contenteditable.
SessionEnded(n) ==
  /\ lastEvent.node = n
  /\ lastEvent.op \in {"blur", "enter"}

LiveMirrored(n) == lastEvent.op = "input" /\ lastEvent.node = n

\* What the store holds for node n's identity, <<"null">> when nothing.
getItemOf(store, n) ==
  IF hasItem(store, storageKeyOf(n)) THEN store[storageKeyOf(n)] ELSE Null

\* C1 (as claimed): when the Editing session of node n ends with n holding
\* the text t, every node bound to n's identity, n itself included, displays
\* trim(t), and the store holds trim(t) for the identity.
C1_FinalMirrorTrimsEveryNode ==
  \A n \in editableNodes :
    SessionEnded(n) =>
      /\ \A m \in bindMap(identity(n)) : innerText[m] = trim(lastEvent.arg)
      /\ getItemOf(localStorage, n) = trim(lastEvent.arg)

C3_LiveMirrorKeepsVisibility ==
  [][lastEvent'.op = "input" => displayNone' = displayNone]_vars

\* C4: after a content-change event on node n in Editing that left n with
\* the text t, n still holds t as typed and every other node bound to n's
\* identity displays t, untrimmed.
C4_LiveMirrorCopiesVerbatim ==
  \A n \in editableNodes :
    LiveMirrored(n) =>
      /\ innerText[n] = lastEvent.arg
      /\ \A m \in bindMap(identity(n)) \ {n} : innerText[m] = lastEvent.arg

\* C4 witness: text with a leading space was typed into one node and shows
\* verbatim in a second node of the identity.
C4_Witness ==
  \E n \in editableNodes : \E m \in bindMap(identity(n)) \ {n} :
    /\ LiveMirrored(n)
    /\ lastEvent.arg = <<" ", "x">>
    /\ innerText[m] = <<" ", "x">>

\* C5: after the Editing session of a node whose key is 'legal' in any
\* letter case ends with the text t: if trim(t) is empty every node of the
\* identity is hidden and has empty text, otherwise every one is visible.
C5_LegalRuleOnCommit ==
  \A n \in editableNodes :
    (SessionEnded(n) /\ toLowerCase(dataKey(n)) = toLowerCase(LegalKey)) =>
      IF trim(lastEvent.arg) = <<>>
        THEN \A m \in bindMap(identity(n)) : displayNone[m] /\ innerText[m] = <<>>
        ELSE \A m \in bindMap(identity(n)) : ~displayNone[m]

\* C5 witness: a whitespace-only text was committed at a legal identity of
\* two nodes, and both are hidden.
C5_Witness ==
  \E n \in editableNodes :
    /\ SessionEnded(n)
    /\ toLowerCase(dataKey(n)) = toLowerCase(LegalKey)
    /\ lastEvent.arg = <<" ">>
    /\ Cardinality(bindMap(identity(n))) = 2
    /\ \A m \in bindMap(identity(n)) : displayNone[m]

\* C6 (as claimed): after Reset every node displays the text the HTML gave
\* it, is visible, and has no entry in the store.
C6_ResetRestoresOwnText ==
  lastEvent.op = "reset" =>
    \A n \in editableNodes :
      /\ innerText[n] = page[n].html
      /\ ~displayNone[n]
      /\ ~hasItem(localStorage, storageKeyOf(n))

\* The last node, in document order, of node n's identity.
lastOfIdentity(n) ==
  CHOOSE l \in editableNodes :
    /\ identity(l) = identity(n)
    /\ \A m \in editableNodes : identity(m) = identity(n) => m <= l

\* C6 (amended): after Reset every node displays the text the HTML gave to
\* the last node of its identity, is visible, and has no entry in the store.
C6_ResetRestoresIdentityDefault ==
  lastEvent.op = "reset" =>
    \A n \in editableNodes :
      /\ innerText[n] = page[lastOfIdentity(n)].html
      /\ ~displayNone[n]
      /\ ~hasItem(localStorage, storageKeyOf(n))

\* C6 witness: Reset ran while a node was in Editing, and a node shows the
\* default of its identity, which is not the text the HTML gave it.
C6_Witness ==
  /\ lastEvent.op = "reset"
  /\ \E n \in editableNodes : contenteditable[n]
  /\ \E n \in editableNodes : innerText[n] # page[n].html

C8_SameTextWhenIdle ==
  \A k \in mirrored :
    (\A n \in bindMap(k) : ~contenteditable[n]) =>
      \A m, n \in bindMap(k) : innerText[m] = innerText[n]

\* The reference grammar: an optional '#', then 3 or 6 hex digits.
refBody(s) == IF Len(s) > 0 /\ s[1] = "#" THEN SubSeq(s, 2, Len(s)) ELSE s

refValid(s) ==
  /\ Len(refBody(s)) \in {3, 6}
  /\ \A i \in 1..Len(refBody(s)) : refBody(s)[i] \in HexChars

refColor(s) ==
  LET b == refBody(s)
      six == IF Len(b) = 3 THEN [i \in 1..6 |-> b[(i + 1) \div 2]] ELSE b
  IN  <<"#">> \o [i \in 1..6 |-> toUpperChar(six[i])]

refNormalize(s) == IF refValid(s) THEN refColor(s) ELSE Null

\* C9 (as claimed): normalizeHex returns the colour of the reference
\* grammar when its argument is in the grammar and invalid otherwise.
C9_NormalizeMatchesGrammar ==
  lastEvent.op = "normalizeHex" => hexResult = refNormalize(hexArg)

\* C9 (amended): normalizeHex returns the colour of the reference grammar
\* when its argument without leading and trailing whitespace is in the
\* grammar and invalid otherwise.
C9_NormalizeMatchesGrammarOfTrimmed ==
  lastEvent.op = "normalizeHex" => hexResult = refNormalize(trim(hexArg))

\* C9 witness: a shorthand colour between spaces was normalized.
C9_Witness ==
  /\ lastEvent.op = "normalizeHex"
  /\ hexArg = <<" ", "#", "a", "B", "a", " ">>
  /\ hexResult = <<"#", "A", "A", "B", "B", "A", "A">>

\* C10: after an input event on the hex field, valid content has become
\* the accent in normalized form and cleared the error colour, and invalid
\* content has set the error colour; in every state the accent is the
\* normalized form of the last valid content, or the initial accent when
\* there was none.
C10_AccentIsLastValidInput ==
  /\ lastEvent.op = "hexInput" =>
       IF normalizeHex(hexValue) # Null
         THEN accent = normalizeHex(hexValue) /\ borderColor = "#ccc"
         ELSE borderColor = "red"
  /\ accent = IF hexHistory.lastValid = Null
                THEN hexHistory.initial
                ELSE normalizeHex(hexHistory.lastValid)

\* C10 witness: invalid content follows valid content; the field shows the
\* error colour and the accent is still the colour of the valid content.
C10_Witness ==
  /\ lastEvent.op = "hexInput"
  /\ hexValue = <<"B", "a", "B", "g">>
  /\ borderColor = "red"
  /\ hexHistory.lastValid = <<"B", "a", "B">>
  /\ accent = <<"#", "B", "B", "A", "A", "B", "B">>

\* ---------------------------------------------------------------- images
\* The events of the image feature carry the file they are about.
ImageEvents == {"ingest", "ignored", "decoded", "decodeError", "processError"}

\* The file is there and its type starts with 'image/'.
isImageFile(file) == file.present /\ file.type # <<>> /\ file.type[1] = "image"

ImageUntouched ==
  /\ backgroundImage' = backgroundImage
  /\ hasImageClass' = hasImageClass
  /\ localStorage' = localStorage

\* C11: an ingestion that fails commits nothing. A missing file or one
\* whose type is no image type leaves the surfaces and the store as they
\* were, starts no decode and raises no alert; a decode or processing
\* failure leaves the surfaces and the store as they were and raises the
\* alert.
C11_FailedIngestionCommitsNothing ==
  [][ /\ (lastEvent'.op \in ImageEvents /\ ~isImageFile(lastEvent'.arg))
           => (ImageUntouched /\ inFlight' = inFlight /\ ~alertShown')
      /\ lastEvent'.op \in {"decodeError", "processError"}
           => (ImageUntouched /\ alertShown') ]_vars

\* A decode has failed with an image on every surface and in the store:
\* the image is still there and the alert is up.
C11_Witness ==
  /\ lastEvent.op = "decodeError"
  /\ alertShown
  /\ placeholders # {}
  /\ hasItem(localStorage, ImageKey)
  /\ \A ph \in placeholders : backgroundImage[ph] = localStorage[ImageKey]

isRounded(target, side, longest) ==
  /\ 2 * target * longest - longest <= 2 * side * MAX_DIMENSION
  /\ 2 * side * MAX_DIMENSION < 2 * target * longest + longest

\* C14: for an image of at least 1 x 1, downscaleToDataURL returns the
\* source string itself when the longest side is at most 1600; otherwise a
\* raster of round(w * s) x round(h * s) with s = 1600 / longest, whose
\* longest side is exactly 1600 and no side longer than the original's;
\* 4000 x 2000 becomes 1600 x 800.
C14_DownscaleKeepsOrFits ==
  lastEvent.op = "downscale" =>
    LET w == imgArg.naturalWidth
        h == imgArg.naturalHeight
        longest == IF w >= h THEN w ELSE h
    IN  /\ longest <= 1600 => imgResult = imgArg.src
        /\ longest > 1600 =>
             /\ imgResult.canvas
             /\ isRounded(imgResult.width, w, longest)
             /\ isRounded(imgResult.height, h, longest)
             /\ imgResult.width <= w /\ imgResult.height <= h
             /\ (imgResult.width = 1600 /\ imgResult.height <= 1600)
                  \/ (imgResult.height = 1600 /\ imgResult.width <= 1600)
        /\ (w = 4000 /\ h = 2000)
             => (imgResult.width = 1600 /\ imgResult.height = 800)

\* 4000 x 2000 has been downscaled to 1600 x 800.
C14_Witness ==
  /\ lastEvent.op = "downscale"
  /\ imgArg.naturalWidth = 4000 /\ imgArg.naturalHeight = 2000
  /\ imgResult.canvas
  /\ imgResult.width = 1600 /\ imgResult.height = 800

\* C20: an image whose longest side exceeds 1600 is downscaled to a raster
\* of at least 1 x 1.
C20_TargetAtLeastOnePixel ==
  (lastEvent.op = "downscale"
     /\ (imgArg.naturalWidth > 1600 \/ imgArg.naturalHeight > 1600))
    => (imgResult.width >= 1 /\ imgResult.height >= 1)

OtherIdentity(m, n) == dataGroup(m) # dataGroup(n) \/ dataKey(m) # dataKey(n)

\* C16: distinct (group, key) pairs, whose strings may contain ':', have
\* storage slots and nodes of their own: a mirror at a node of one pair
\* leaves the text, the visibility and the stored entry of every node of
\* another pair as they were, and no event of the text feature changes
\* the slot of the image.
C16_IdentitiesAreIndependent ==
  [][ /\ lastEvent'.op \in {"input", "blur", "enter"} =>
           \A m \in editableNodes :
             OtherIdentity(m, lastEvent'.node) =>
               /\ innerText'[m] = innerText[m]
               /\ displayNone'[m] = displayNone[m]
               /\ hasItem(localStorage', storageKeyOf(m))
                    = hasItem(localStorage, storageKeyOf(m))
               /\ hasItem(localStorage, storageKeyOf(m))
                    => localStorage'[storageKeyOf(m)] = localStorage[storageKeyOf(m)]
      /\ lastEvent'.op \in {"beginEdit", "input", "blur", "lateBlur", "enter",
                            "reset"} =>
           /\ hasItem(localStorage', ImageKey) = hasItem(localStorage, ImageKey)
           /\ hasItem(localStorage, ImageKey)
                => localStorage'[ImageKey] = localStorage[ImageKey] ]_vars

\* C17: a click or a focus on a node that is being edited is a no-op: the
\* text and visibility of every node, the store, the editable flags and
\* the listeners stay as they were, and the node has exactly one input
\* listener and one keydown listener.
C17_ReactivationIsNoOp ==
  [][ (lastEvent'.op = "beginEdit" /\ contenteditable[lastEvent'.node]) =>
        /\ innerText' = innerText
        /\ displayNone' = displayNone
        /\ localStorage' = localStorage
        /\ contenteditable' = contenteditable
        /\ editHandlers' = editHandlers
        /\ inputListeners' = inputListeners
        /\ keyListeners' = keyListeners
        /\ blurListeners' = blurListeners
        /\ inputListeners'[lastEvent'.node] = 1
        /\ keyListeners'[lastEvent'.node] = 1 ]_vars

\* The only node being edited has been clicked again in the middle of its
\* session: the store holds text with a space at an end, which only the
\* live mirror of a session still open writes, and the last event is a
\* beginEdit of that node.
C17_Witness ==
  /\ lastEvent.op = "beginEdit"
  /\ \A m \in editableNodes : contenteditable[m] <=> m = lastEvent.node
  /\ identity(lastEvent.node) \in mirrored
  /\ hasItem(localStorage, storageKeyOf(lastEvent.node))
  /\ localStorage[storageKeyOf(lastEvent.node)]
       # trim(localStorage[storageKeyOf(lastEvent.node)])
  /\ inputListeners[lastEvent.node] = 1
  /\ keyListeners[lastEvent.node] = 1

\* C18: a node that is not being edited has no session listener (input,
\* keydown, blur), a node being edited has exactly one of each: listeners
\* never accumulate.
C18_OneListenerSetPerSession ==
  \A n \in editableNodes :
    IF contenteditable[n]
      THEN inputListeners[n] = 1 /\ keyListeners[n] = 1 /\ blurListeners[n] = 1
      ELSE inputListeners[n] = 0 /\ keyListeners[n] = 0 /\ blurListeners[n] = 0

\* C19: when the reset runs while a node is being edited and the session
\* is ended next with nothing typed in between, no store entry of a text
\* identity is created again.
C19_ResetStaysClearedAfterSession ==
  [][ (lastEvent.op = "reset" /\ lastEvent'.op \in {"blur", "enter"})
        => \A n \in editableNodes : ~hasItem(localStorage', storageKeyOf(n)) ]_vars

====
